---- MODULE Spec2Model ----
(***************************************************************************)
(* State-machine model of the collaboration client's GUI layer             *)
(* (src/client/gui_manager.py): ChatFrame, VideoFrame, AudioFrame,         *)
(* ScreenShareFrame, FileTransferFrame and the connection row and closing  *)
(* handler of TabbedGUIManager.                                            *)
(*                                                                         *)
(* Every handler is one action.  A widget is modelled by the properties    *)
(* the handlers read or write (button text/state, label text, what a video *)
(* slot shows).  A registered callback is modelled by whether it is        *)
(* registered; what a handler passes to it is recorded in last_calls, and  *)
(* whether it raises is an input of the action.                            *)
(*                                                                         *)
(* The frames do not share state, so each has its own specification        *)
(* (SpecChatHistory, SpecChatSend, SpecVideoLocal, SpecVideoSlots,         *)
(* SpecVideoRemote, SpecVideoOrder, SpecAudio, SpecShare, SpecScreen,      *)
(* SpecConn, SpecFiles) over the same variables; a specification leaves    *)
(* the other frames' variables at their constructed values.  The window is *)
(* closed only in SpecClosing and SpecVideoClosing; everywhere else        *)
(* window_alive stays TRUE.                                                *)
(***************************************************************************)
EXTENDS Integers, Sequences, FiniteSets, TLC

VARIABLES
    \* ---- observation of the last handler run (not program state) ----
    last_op,              \* name of the handler that ran last ("init" at start)
    last_calls,           \* callback invocations the last handler made, in order
    \* ---- toolkit ----
    window_alive,         \* the root window (and so every widget) exists
    \* ---- ChatFrame ----
    chat_history,         \* self.chat_history: list of message dicts
    chat_added,           \* add_message calls since the last load/clear (bounds the model)
    message_entry,        \* text of self.message_entry (sequence of characters)
    message_callback,     \* self.message_callback is set
    chat_status,          \* self.status_label: [text, is_error]
    chat_status_timers,   \* pending after(3000) resets of the status label
    \* ---- VideoFrame ----
    video_enabled,        \* VideoFrame.enabled
    video_status_text,    \* ModuleFrame.status_label text ("Active"/"Inactive")
    video_button_text,    \* self.video_button text
    video_callback,       \* self.video_callback is set
    video_slots,          \* self.video_slots: slot id -> [participant_id, active]
    local_shows,          \* what slot 0's frame shows: "blank" placeholder or "video"
    participant_videos,   \* self.participant_videos: client -> video_enabled entry
    \* ---- AudioFrame ----
    audio_enabled,        \* AudioFrame.enabled
    muted,                \* AudioFrame.muted
    audio_button_text,
    mute_button_text,
    mute_button_state,
    level_bar,            \* self.level_bar['value']
    audio_callback,       \* self.audio_callback is set
    mute_callback,        \* self.mute_callback is set
    \* ---- ScreenShareFrame ----
    is_sharing,
    share_enabled,        \* ScreenShareFrame.enabled (ModuleFrame)
    current_presenter_name,
    share_button_text,
    share_button_state,
    sharing_status,       \* self.sharing_status label text
    screen_share_callback,\* self.screen_share_callback is set
    request_timers,       \* pending after(10000, _reset_presenter_request_timeout)
    label_timers,         \* pending after(3000, ...) label resets: sequence of texts
    \* ---- TabbedGUIManager connection row ----
    connected,
    connect_button_state,
    disconnect_button_state,
    conn_status_label,    \* self.status_label text: "Status: " + status
    last_status,          \* the status last given to update_connection_status
    connect_callback,
    disconnect_callback,
    \* ---- FileTransferFrame ----
    shared_files,         \* self.shared_files: the dict's items in insertion order
    file_listbox,         \* rows of self.file_listbox
    file_selection,       \* file_listbox.curselection(): <<>> or <<row>>, rows from 0
    file_download_callback, \* self.file_download_callback is set
    \* ---- ScreenShareFrame: the screen display ----
    screen_canvas,        \* <<winfo_width(), winfo_height()>> of self.screen_canvas
    last_canvas_size,     \* self.last_canvas_size
    cached_canvas_size,   \* self._cached_canvas_size: <<>> (None) or <<w, h>>
    current_frame_data,   \* self.current_frame_data: <<>> (None) or <<frame>>
    current_presenter,    \* self.current_presenter
    screen_placement      \* the image item on the canvas: <<>> or <<placement>>

obs_vars   == <<last_op, last_calls>>
chat_hist_vars == <<chat_history, chat_added>>
chat_send_vars == <<message_entry, message_callback>>
chat_stat_vars == <<chat_status, chat_status_timers>>
chat_vars  == <<chat_hist_vars, chat_send_vars, chat_stat_vars>>
video_vars == <<video_enabled, video_status_text, video_button_text, video_callback,
                video_slots, local_shows, participant_videos>>
audio_vars == <<audio_enabled, muted, audio_button_text, mute_button_text,
                mute_button_state, level_bar, audio_callback, mute_callback>>
share_vars == <<is_sharing, share_enabled, current_presenter_name, share_button_text,
                share_button_state, sharing_status, screen_share_callback,
                request_timers, label_timers>>
conn_vars  == <<connected, connect_button_state, disconnect_button_state,
                conn_status_label, last_status, connect_callback, disconnect_callback>>
file_vars  == <<shared_files, file_listbox, file_selection, file_download_callback>>
screen_vars == <<screen_canvas, last_canvas_size, cached_canvas_size, current_frame_data,
                 current_presenter, screen_placement>>
vars == <<obs_vars, window_alive, chat_vars, video_vars, audio_vars, share_vars, conn_vars,
          file_vars, screen_vars>>

None == "None"            \* Python's None

\* A callback invocation as recorded in last_calls.
Call(cb, arg, raised) == [cb |-> cb, arg |-> arg, raised |-> raised]


(***************************************************************************)
(* Bounds of the model                                                     *)
(***************************************************************************)
MaxAdds   == 2   \* add_message calls explored after each load/clear
MaxTime   == 2   \* message timestamps are 1..MaxTime
MaxTimers == 2   \* pending timers of one kind

(***************************************************************************)
(* ChatFrame                                                               *)
(***************************************************************************)
max_history_size == 500

Timestamps == 1..MaxTime

Message(username, ts, own, type) ==
    [username |-> username, timestamp |-> ts, is_own_message |-> own, message_type |-> type]

\* A history of n identical chat messages, as a server would replay it.
Replay(n, ts) == [i \in 1..n |-> Message("alice", ts, FALSE, "chat")]

\* The histories load_chat_history is given: empty, short, out of order, and
\* around max_history_size.
Histories ==
    { Replay(n, 1) : n \in {0, 1, max_history_size - 1, max_history_size,
                            max_history_size + 1} }
    \cup { <<Message("bob", MaxTime, FALSE, "chat"), Message("alice", 1, TRUE, "chat")>> }

\* sorted(history, key=timestamp): Python's sort is stable, so the result is the
\* entries with timestamp 1 in their order, then those with timestamp 2, ...
RECURSIVE SortedUpTo(_, _)
SortedUpTo(history, t) ==
    IF t = 0 THEN <<>>
    ELSE SortedUpTo(history, t - 1) \o SelectSeq(history, LAMBDA m : m.timestamp = t)
SortedByTimestamp(history) == SortedUpTo(history, MaxTime)

\* self.chat_history[-self.max_history_size:]
LastN(s, n) == IF Len(s) <= n THEN s ELSE SubSeq(s, Len(s) - n + 1, Len(s))

\* _show_status: set the label and schedule its reset after 3 seconds.
ShowStatus(text, is_error) ==
    /\ chat_status' = [text |-> text, is_error |-> is_error]
    /\ chat_status_timers' = chat_status_timers + 1

\* add_message: append, then keep the newest max_history_size entries.
AddToHistory(history, entry) ==
    LET appended == Append(history, entry)
    IN  IF Len(appended) > max_history_size
        THEN LastN(appended, max_history_size)
        ELSE appended

add_message(username, ts, own, type) ==
    /\ chat_added < MaxAdds
    /\ chat_history' = AddToHistory(chat_history, Message(username, ts, own, type))
    /\ chat_added' = chat_added + 1
    /\ last_op' = "add_message"
    /\ last_calls' = <<>>
    /\ UNCHANGED <<window_alive, file_vars, screen_vars, chat_send_vars, chat_stat_vars, video_vars, audio_vars,
                   share_vars, conn_vars>>

add_system_message(ts) ==
    /\ add_message("System", ts, FALSE, "system")

add_error_message(ts) ==
    /\ add_message("Error", ts, FALSE, "error")

\* load_chat_history: the loaded history replaces the current one, sorted; no cap
\* is applied.
LoadedHistory(history) == SortedByTimestamp(history)

load_chat_history(history) ==
    /\ chat_status_timers < MaxTimers
    /\ chat_history' = LoadedHistory(history)
    /\ chat_added' = 0
    /\ ShowStatus("Loaded messages from history", FALSE)
    /\ last_op' = "load_chat_history"
    /\ last_calls' = <<>>
    /\ UNCHANGED <<window_alive, file_vars, screen_vars, chat_send_vars, video_vars, audio_vars, share_vars,
                   conn_vars>>

\* _clear_chat_history: clears only when the user confirms the dialog.
clear_chat_history(confirmed) ==
    /\ chat_status_timers < MaxTimers
    /\ IF confirmed
       THEN /\ chat_history' = <<>>
            /\ chat_added' = 0
            /\ ShowStatus("Chat history cleared", FALSE)
       ELSE UNCHANGED <<chat_hist_vars, chat_stat_vars>>
    /\ last_op' = "_clear_chat_history"
    /\ last_calls' = <<>>
    /\ UNCHANGED <<window_alive, file_vars, screen_vars, chat_send_vars, video_vars, audio_vars, share_vars,
                   conn_vars>>

\* The after(3000) callback of _show_status.
chat_status_timer ==
    /\ chat_status_timers > 0
    /\ chat_status_timers' = chat_status_timers - 1
    /\ chat_status' = [text |-> "Ready", is_error |-> FALSE]
    /\ last_op' = "chat_status_timer"
    /\ last_calls' = <<>>
    /\ UNCHANGED <<window_alive, file_vars, screen_vars, chat_hist_vars, chat_send_vars, video_vars, audio_vars,
                   share_vars, conn_vars>>


\* ---- sending ----
MaxMessageLength == 1000

Whitespace == {" ", "\t"}

\* n copies of the character c
Chars(c, n) == [i \in 1..n |-> c]

\* The texts the user may have typed into the entry: empty, blank, short, padded,
\* and around MaxMessageLength (also with padding that strip() removes).
EntryTexts ==
    { <<>>, <<" ">>, <<" ", "\t">>, <<"a">>, <<" ", "a", " ", "a", "\t">>,
      Chars("a", MaxMessageLength),
      Chars("a", MaxMessageLength + 1),
      <<" ">> \o Chars("a", MaxMessageLength) \o <<" ">>,
      <<"\t">> \o Chars("a", MaxMessageLength + 1) }

\* str.strip(): drop leading and trailing whitespace.
IsBlank(s) == \A i \in 1..Len(s) : s[i] \in Whitespace
FirstKept(s) ==
    CHOOSE i \in 1..Len(s) : s[i] \notin Whitespace /\ \A j \in 1..(i - 1) : s[j] \in Whitespace
LastKept(s) ==
    CHOOSE i \in 1..Len(s) : s[i] \notin Whitespace /\ \A j \in (i + 1)..Len(s) : s[j] \in Whitespace
Strip(s) == IF IsBlank(s) THEN <<>> ELSE SubSeq(s, FirstKept(s), LastKept(s))

\* The user edits the entry.
type_message(text) ==
    /\ window_alive
    /\ message_entry' = text
    /\ last_op' = "type_message"
    /\ last_calls' = <<>>
    /\ UNCHANGED <<window_alive, file_vars, screen_vars, chat_hist_vars, message_callback, chat_stat_vars,
                   video_vars, audio_vars, share_vars, conn_vars>>

set_message_callback(registered) ==
    /\ message_callback' = registered
    /\ last_op' = "set_message_callback"
    /\ last_calls' = <<>>
    /\ UNCHANGED <<window_alive, file_vars, screen_vars, chat_hist_vars, message_entry, chat_stat_vars,
                   video_vars, audio_vars, share_vars, conn_vars>>

\* The validation of _send_message: which branch a stripped text takes.
SendBranchNoLengthCheck(text, has_callback) ==
    IF text = <<>> THEN "empty"
    ELSE IF has_callback THEN "send"
    ELSE "no_callback"
SendBranch(text, has_callback) ==
    IF text = <<>> THEN "empty"
    ELSE IF Len(text) > MaxMessageLength THEN "too_long"
    ELSE IF has_callback THEN "send"
    ELSE "no_callback"

\* _send_message (Send button or <Return>); raises: the callback raises.
send_message(raises) ==
    /\ window_alive
    /\ chat_status_timers < MaxTimers
    /\ LET message_text == Strip(message_entry)
           branch == SendBranch(message_text, message_callback)
       IN  CASE branch = "empty" ->
                 /\ ShowStatus("Cannot send empty message", TRUE)
                 /\ last_calls' = <<>>
                 /\ UNCHANGED message_entry
             [] branch = "too_long" ->
                 /\ ShowStatus("Message too long (max 1000 characters)", TRUE)
                 /\ last_calls' = <<>>
                 /\ UNCHANGED message_entry
             [] branch = "send" /\ ~raises ->
                 /\ last_calls' = <<Call("message_callback", message_text, FALSE)>>
                 /\ message_entry' = <<>>
                 /\ ShowStatus("Message sent", FALSE)
             [] branch = "send" /\ raises ->
                 /\ last_calls' = <<Call("message_callback", message_text, TRUE)>>
                 /\ ShowStatus("Failed to send message", TRUE)
                 /\ UNCHANGED message_entry
             [] branch = "no_callback" ->
                 /\ ShowStatus("Not connected", TRUE)
                 /\ last_calls' = <<>>
                 /\ UNCHANGED message_entry
    /\ last_op' = "_send_message"
    /\ UNCHANGED <<window_alive, file_vars, screen_vars, chat_hist_vars, message_callback, video_vars, audio_vars,
                   share_vars, conn_vars>>


(***************************************************************************)
(* Constructed state                                                       *)
(***************************************************************************)
ClientOrder == <<"c1", "c2", "c3", "c4">>
ClientIds == { ClientOrder[k] : k \in DOMAIN ClientOrder }   \* remote participants' client ids
Slots == 0..3

InitChat ==
    /\ chat_history = <<>>
    /\ chat_added = 0
    /\ message_entry = <<>>
    /\ message_callback = FALSE
    /\ chat_status = [text |-> "Ready", is_error |-> FALSE]
    /\ chat_status_timers = 0

\* _create_video_slots: four slots, slot 0 reserved for the local video.
InitVideo ==
    /\ video_enabled = FALSE
    /\ video_status_text = "Inactive"
    /\ video_button_text = "Enable Video"
    /\ video_callback = FALSE
    /\ video_slots = [i \in Slots |->
                        [participant_id |-> IF i = 0 THEN "local" ELSE None,
                         active |-> FALSE]]
    /\ local_shows = "blank"
    /\ participant_videos = <<>>

InitAudio ==
    /\ audio_enabled = FALSE
    /\ muted = FALSE
    /\ audio_button_text = "Enable Audio"
    /\ mute_button_text = "Mute"
    /\ mute_button_state = "disabled"
    /\ level_bar = 0
    /\ audio_callback = FALSE
    /\ mute_callback = FALSE

InitShare ==
    /\ is_sharing = FALSE
    /\ share_enabled = FALSE
    /\ current_presenter_name = None
    /\ share_button_text = "Start Screen Share"
    /\ share_button_state = "normal"
    /\ sharing_status = "Ready to share"
    /\ screen_share_callback = FALSE
    /\ request_timers = 0
    /\ label_timers = <<>>

InitConn ==
    /\ connected = FALSE
    /\ connect_button_state = "normal"
    /\ disconnect_button_state = "disabled"
    /\ conn_status_label = <<"S", "t", "a", "t", "u", "s", ":", " ", "D", "i", "s", "c", "o", "n", "n", "e", "c", "t", "e", "d">>
    /\ last_status = <<"D", "i", "s", "c", "o", "n", "n", "e", "c", "t", "e", "d">>
    /\ connect_callback = FALSE
    /\ disconnect_callback = FALSE

InitFiles ==
    /\ shared_files = <<>>
    /\ file_listbox = <<>>
    /\ file_selection = <<>>
    /\ file_download_callback = FALSE

\* The canvas is not mapped when the frame is constructed: Tk reports 1x1 for
\* it and for its parent, and _initialize_canvas falls back to 400x300.
InitScreen ==
    /\ screen_canvas = <<1, 1>>
    /\ last_canvas_size = <<400, 300>>
    /\ cached_canvas_size = <<>>
    /\ current_frame_data = <<>>
    /\ current_presenter = None
    /\ screen_placement = <<>>

Init ==
    /\ last_op = "init"
    /\ last_calls = <<>>
    /\ window_alive = TRUE
    /\ InitChat /\ InitVideo /\ InitAudio /\ InitShare /\ InitConn /\ InitFiles /\ InitScreen

(***************************************************************************)
(* VideoFrame                                                              *)
(*                                                                         *)
(* A slot is modelled by its bookkeeping (participant_id, active).  Of the *)
(* widgets inside a slot only slot 0's content is modelled (local_shows):  *)
(* the blank placeholder or the local video image.                         *)
(***************************************************************************)
\* _widget_exists(widget): every widget lives as long as the root window.
WidgetExists == window_alive

\* ModuleFrame._update_status_indicator
StatusText(enabled) == IF enabled THEN "Active" ELSE "Inactive"

\* The text _toggle_video puts on the video button.
ButtonText(enabled) == IF enabled THEN "Disable Video" ELSE "Enable Video"

set_video_callback(registered) ==
    /\ video_callback' = registered
    /\ last_op' = "set_video_callback"
    /\ last_calls' = <<>>
    /\ UNCHANGED <<window_alive, file_vars, screen_vars, chat_vars, video_enabled, video_status_text,
                   video_button_text, video_slots, local_shows, participant_videos,
                   audio_vars, share_vars, conn_vars>>

\* ModuleFrame.set_enabled: sets the flag and the status indicator only.
set_enabled(enabled) ==
    /\ window_alive
    /\ video_enabled' = enabled
    /\ video_status_text' = StatusText(enabled)
    /\ last_op' = "set_enabled"
    /\ last_calls' = <<>>
    /\ UNCHANGED <<window_alive, file_vars, screen_vars, chat_vars, video_button_text, video_callback, video_slots,
                   local_shows, participant_videos, audio_vars, share_vars, conn_vars>>

\* _clear_local_video_slot: slot 0 gets the blank placeholder and is marked
\* inactive, when its frame widget exists.
ClearedLocalSlot(slots) ==
    IF 0 \in DOMAIN slots /\ WidgetExists
    THEN [slots EXCEPT ![0] = [participant_id |-> "local", active |-> FALSE]]
    ELSE slots
ClearedLocalShows(slots, shows) ==
    IF 0 \in DOMAIN slots /\ WidgetExists THEN "blank" ELSE shows

\* The callback invocation _toggle_video makes, given the new enabled flag.
ToggleVideoCallsOldValue(registered, enabled, raises) ==
    IF registered THEN <<Call("video_callback", ~enabled, raises)>> ELSE <<>>
ToggleVideoCalls(registered, enabled, raises) ==
    IF registered THEN <<Call("video_callback", enabled, raises)>> ELSE <<>>

\* _toggle_video (the video button's command).  The callback is the handler's
\* last statement, so a raising callback undoes nothing.
toggle_video(raises) ==
    /\ window_alive
    /\ raises => video_callback
    /\ video_enabled' = ~video_enabled
    /\ video_status_text' = StatusText(video_enabled')
    /\ video_button_text' = ButtonText(video_enabled')
    /\ IF ~video_enabled'
       THEN /\ video_slots' = ClearedLocalSlot(video_slots)
            /\ local_shows' = ClearedLocalShows(video_slots, local_shows)
       ELSE UNCHANGED <<video_slots, local_shows>>
    /\ last_calls' = ToggleVideoCalls(video_callback, video_enabled', raises)
    /\ last_op' = "_toggle_video"
    /\ UNCHANGED <<window_alive, file_vars, screen_vars, chat_vars, video_callback, participant_videos, audio_vars,
                   share_vars, conn_vars>>

\* _update_local_video_safe_stable / _create_stable_video_display for slot 0: a
\* usable frame puts the video image in the slot; a None or empty frame, or an
\* exception in the conversion (caught and logged), leaves the slot as it is.
LocalDisplayed(slots, shows, frame_ok, raises) ==
    IF 0 \in DOMAIN slots /\ WidgetExists /\ frame_ok /\ ~raises THEN "video" ELSE shows

\* update_local_video: the frame is ignored while video is disabled.
LocalVideoShownIgnoringEnabled(slots, shows, enabled, frame_ok, raises) ==
    LocalDisplayed(slots, shows, frame_ok, raises)
LocalVideoShown(slots, shows, enabled, frame_ok, raises) ==
    IF ~enabled THEN shows ELSE LocalDisplayed(slots, shows, frame_ok, raises)

update_local_video(frame_ok, raises) ==
    /\ local_shows' = LocalVideoShown(video_slots, local_shows, video_enabled, frame_ok, raises)
    /\ last_op' = "update_local_video"
    /\ last_calls' = <<>>
    /\ UNCHANGED <<window_alive, file_vars, screen_vars, chat_vars, video_enabled, video_status_text,
                   video_button_text, video_callback, video_slots, participant_videos,
                   audio_vars, share_vars, conn_vars>>

\* update_participant_info(client_id, username, video_enabled): the entry is
\* created if missing; video_enabled is stored unless it is None.  (The username
\* only feeds the name label and is not modelled.)  An entry is "True", "False",
\* or "unset" when it has no 'video_enabled' key.
ParticipantInfo(info, client_id, enabled) ==
    LET old == IF client_id \in DOMAIN info THEN info[client_id] ELSE "unset"
    IN  [c \in DOMAIN info \cup {client_id} |->
            IF c = client_id THEN (IF enabled = None THEN old ELSE enabled)
            ELSE info[c]]

update_participant_info(client_id, enabled) ==
    /\ participant_videos' = ParticipantInfo(participant_videos, client_id, enabled)
    /\ last_op' = "update_participant_info"
    /\ last_calls' = <<>>
    /\ UNCHANGED <<window_alive, file_vars, screen_vars, chat_vars, video_enabled, video_status_text,
                   video_button_text, video_callback, video_slots, local_shows,
                   audio_vars, share_vars, conn_vars>>

\* participant_videos[client_id].get('video_enabled', True), True too when the
\* client has no entry.
VideoEnabledFor(info, client_id) ==
    IF client_id \in DOMAIN info THEN info[client_id] # "False" ELSE TRUE

\* The slots that hold client_id; dict order is slot order.
SlotsOf(slots, client_id) == { i \in DOMAIN slots : slots[i].participant_id = client_id }
MinOf(S) == CHOOSE i \in S : \A j \in S : i <= j

\* _get_video_slot_stable: the slot the client holds, else (for a remote
\* client) the first free slot in the order 1, 3, 2, else the first inactive
\* slot from 1 on, else None.
NoSlot == -1          \* the function returns None
PreferredSlotsInKeyOrder == <<1, 2, 3>>
preferred_slots == <<1, 3, 2>>

FreePreferred(slots) ==
    { k \in 1..Len(preferred_slots) :
        /\ preferred_slots[k] \in DOMAIN slots
        /\ (~slots[preferred_slots[k]].active
            \/ slots[preferred_slots[k]].participant_id = None) }

GetVideoSlotStableFromZero(slots, client_id) ==
    LET inactive == { i \in 0..(Cardinality(DOMAIN slots) - 1) : ~slots[i].active }
    IN  IF SlotsOf(slots, client_id) # {} THEN MinOf(SlotsOf(slots, client_id))
        ELSE IF client_id # "local" /\ FreePreferred(slots) # {}
        THEN preferred_slots[MinOf(FreePreferred(slots))]
        ELSE IF inactive # {} THEN MinOf(inactive)
        ELSE NoSlot
GetVideoSlotStableEvicting(slots, client_id) ==
    IF SlotsOf(slots, client_id) # {} THEN MinOf(SlotsOf(slots, client_id))
    ELSE IF client_id # "local" /\ FreePreferred(slots) # {}
    THEN preferred_slots[MinOf(FreePreferred(slots))]
    ELSE preferred_slots[Len(preferred_slots)]
GetVideoSlotStable(slots, client_id) ==
    LET inactive == { i \in 1..(Cardinality(DOMAIN slots) - 1) : ~slots[i].active }
    IN  IF SlotsOf(slots, client_id) # {} THEN MinOf(SlotsOf(slots, client_id))
        ELSE IF client_id # "local" /\ FreePreferred(slots) # {}
        THEN preferred_slots[MinOf(FreePreferred(slots))]
        ELSE IF inactive # {} THEN MinOf(inactive)
        ELSE NoSlot

\* update_remote_video: a frame of a participant recorded with video_enabled
\* False is ignored; otherwise the client's slot (if it gets one) is assigned to
\* it and marked active before the frame is drawn.
RemoteVideoIgnoringDisabled(slots, info, client_id) ==
    LET slot_id == GetVideoSlotStable(slots, client_id)
    IN  IF slot_id # NoSlot /\ slot_id \in DOMAIN slots
        THEN [slots EXCEPT ![slot_id] = [participant_id |-> client_id, active |-> TRUE]]
        ELSE slots
RemoteVideo(slots, info, client_id) ==
    IF ~VideoEnabledFor(info, client_id) THEN slots
    ELSE LET slot_id == GetVideoSlotStable(slots, client_id)
         IN  IF slot_id # NoSlot /\ slot_id \in DOMAIN slots
             THEN [slots EXCEPT ![slot_id] = [participant_id |-> client_id, active |-> TRUE]]
             ELSE slots

update_remote_video(client_id) ==
    /\ video_slots' = RemoteVideo(video_slots, participant_videos, client_id)
    /\ last_op' = "update_remote_video"
    /\ last_calls' = <<>>
    /\ UNCHANGED <<window_alive, file_vars, screen_vars, chat_vars, video_enabled, video_status_text,
                   video_button_text, video_callback, local_shows, participant_videos,
                   audio_vars, share_vars, conn_vars>>

\* update_video_feeds(participants): participants is the dict's values in dict
\* order, each [client_id, video_enabled].
RECURSIVE FeedInfo(_, _)
FeedInfo(info, participants) ==
    IF participants = <<>> THEN info
    ELSE FeedInfo(ParticipantInfo(info, Head(participants).client_id,
                                  IF Head(participants).video_enabled THEN "True" ELSE "False"),
                  Tail(participants))

\* "Clear all remote slots first to prevent duplicates"
BlankSlot == [participant_id |-> None, active |-> FALSE]
RemoteSlotsNotCleared(slots) == slots
RemoteSlotsCleared(slots) ==
    [i \in DOMAIN slots |-> IF i > 0 /\ WidgetExists THEN BlankSlot ELSE slots[i]]

\* The assignment loop: the k-th participant with video goes to slot k while
\* k < len(video_slots); a participant already assigned is skipped.
RECURSIVE AssignFeeds(_, _, _, _)
AssignFeeds(slots, active_participants, assigned, slot_index) ==
    IF active_participants = <<>> THEN slots
    ELSE LET participant_id == Head(active_participants).client_id
         IN  IF participant_id \in assigned \/ slot_index >= Cardinality(DOMAIN slots)
             THEN AssignFeeds(slots, Tail(active_participants), assigned, slot_index)
             ELSE IF slot_index \in DOMAIN slots
             THEN AssignFeeds(
                      [slots EXCEPT ![slot_index] =
                          [participant_id |-> participant_id, active |-> TRUE]],
                      Tail(active_participants), assigned \cup {participant_id},
                      slot_index + 1)
             ELSE AssignFeeds(slots, Tail(active_participants), assigned, slot_index)

update_video_feeds(participants) ==
    /\ participant_videos' = FeedInfo(participant_videos, participants)
    /\ video_slots' = AssignFeeds(RemoteSlotsCleared(video_slots),
                                  SelectSeq(participants, LAMBDA p : p.video_enabled),
                                  {}, 1)
    /\ last_op' = "update_video_feeds"
    /\ last_calls' = <<>>
    /\ UNCHANGED <<window_alive, file_vars, screen_vars, chat_vars, video_enabled, video_status_text,
                   video_button_text, video_callback, local_shows, audio_vars,
                   share_vars, conn_vars>>

\* clear_video_slot: the external managers are told first; if one raises, the
\* handler logs and returns.  Otherwise the first slot of the client is reset
\* when its frame widget exists.
ClearedVideoSlot(slots, client_id, manager_raises) ==
    IF manager_raises \/ SlotsOf(slots, client_id) = {} THEN slots
    ELSE LET slot_id == MinOf(SlotsOf(slots, client_id))
         IN  IF WidgetExists
             THEN [slots EXCEPT ![slot_id] =
                      [participant_id |-> IF slot_id = 0 THEN "local" ELSE None,
                       active |-> FALSE]]
             ELSE slots

clear_video_slot(client_id, manager_raises) ==
    /\ video_slots' = ClearedVideoSlot(video_slots, client_id, manager_raises)
    /\ last_op' = "clear_video_slot"
    /\ last_calls' = <<>>
    /\ UNCHANGED <<window_alive, file_vars, screen_vars, chat_vars, video_enabled, video_status_text,
                   video_button_text, video_callback, local_shows, participant_videos,
                   audio_vars, share_vars, conn_vars>>

\* clear_remote_video_slot: the first slot of the client is reset when its frame
\* widget exists.
ClearedRemoteVideoSlotDeletesEntry(slots, client_id) ==
    IF SlotsOf(slots, client_id) = {} THEN slots
    ELSE [i \in DOMAIN slots \ {MinOf(SlotsOf(slots, client_id))} |-> slots[i]]
ClearedRemoteVideoSlot(slots, client_id) ==
    IF SlotsOf(slots, client_id) = {} THEN slots
    ELSE LET slot_id == MinOf(SlotsOf(slots, client_id))
         IN  IF WidgetExists THEN [slots EXCEPT ![slot_id] = BlankSlot] ELSE slots

clear_remote_video_slot(client_id) ==
    /\ video_slots' = ClearedRemoteVideoSlot(video_slots, client_id)
    /\ last_op' = "clear_remote_video_slot"
    /\ last_calls' = <<>>
    /\ UNCHANGED <<window_alive, file_vars, screen_vars, chat_vars, video_enabled, video_status_text,
                   video_button_text, video_callback, local_shows, participant_videos,
                   audio_vars, share_vars, conn_vars>>

\* The participant dicts update_video_feeds is given: any subset of the clients
\* in dict order ClientOrder, each with video on or off; and any subset with
\* video on in the opposite dict order.
Reverse(q) == [k \in 1..Len(q) |-> q[Len(q) + 1 - k]]
FeedOf(order, on, off) ==
    LET listed == SelectSeq(order, LAMBDA c : c \in on \cup off)
    IN  [k \in 1..Len(listed) |-> [client_id |-> listed[k], video_enabled |-> listed[k] \in on]]
Feeds ==
    { FeedOf(ClientOrder, on, off) : on \in SUBSET ClientIds, off \in SUBSET ClientIds }
    \cup { FeedOf(Reverse(ClientOrder), on, {}) : on \in SUBSET ClientIds }

(***************************************************************************)
(* VideoFrame: the local video (button, flag, callback, slot 0's content)  *)
(***************************************************************************)
NextVideoLocal ==
    \/ \E registered \in BOOLEAN : set_video_callback(registered)
    \/ \E enabled \in BOOLEAN : set_enabled(enabled)
    \/ \E raises \in BOOLEAN : toggle_video(raises)
    \/ \E frame_ok \in BOOLEAN, raises \in BOOLEAN : update_local_video(frame_ok, raises)
    \/ \E c \in ClientIds : update_remote_video(c)
    \/ \E c \in ClientIds : clear_video_slot(c, FALSE)

SpecVideoLocal == Init /\ [][NextVideoLocal]_vars

\* C6: each _toggle_video call flips VideoFrame.enabled and invokes the
\* registered video_callback exactly once with the new value of enabled (and
\* makes no call when none is registered), and afterwards the video button reads
\* "Disable Video" exactly when enabled is True.
C6_ToggleVideoContract ==
    [][ (\E raises \in BOOLEAN : toggle_video(raises)) =>
        /\ video_enabled' = ~video_enabled
        /\ video_callback =>
              /\ Len(last_calls') = 1
              /\ last_calls'[1].cb = "video_callback"
              /\ last_calls'[1].arg = video_enabled'
        /\ ~video_callback => last_calls' = <<>>
        /\ (video_button_text' = "Disable Video") <=> video_enabled'
      ]_vars

\* _toggle_video has just enabled video and told the callback so.
C6_Witness ==
    /\ last_op = "_toggle_video"
    /\ video_enabled
    /\ Len(last_calls) = 1
    /\ last_calls[1].arg = TRUE
    /\ video_button_text = "Disable Video"

\* C7: while video is disabled update_local_video changes nothing (whatever the
\* frame, and also when the display path would raise); and a _toggle_video that
\* disables video leaves slot 0 inactive and showing the blank placeholder, so
\* slot 0 stays that way over every later update_local_video until video is
\* enabled again.
C7_DisabledVideoIgnoresLocalFrames ==
    [][ /\ ((\E frame_ok \in BOOLEAN, raises \in BOOLEAN : update_local_video(frame_ok, raises))
            /\ ~video_enabled)
           => UNCHANGED <<video_vars>>
        /\ ((\E raises \in BOOLEAN : toggle_video(raises)) /\ ~video_enabled')
           => (~video_slots'[0].active /\ local_shows' = "blank")
      ]_vars

\* A local frame arrived while video was disabled and slot 0 still shows the
\* blank placeholder.
C7_Witness ==
    /\ last_op = "update_local_video"
    /\ ~video_enabled
    /\ video_button_text = "Enable Video"
    /\ local_shows = "blank"
    /\ ~video_slots[0].active

(***************************************************************************)
(* VideoFrame: the slot bookkeeping                                        *)
(***************************************************************************)
NextVideoSlots ==
    \/ toggle_video(FALSE)
    \/ \E p \in Feeds : update_video_feeds(p)
    \/ \E c \in ClientIds : update_remote_video(c)
    \/ \E c \in ClientIds, manager_raises \in BOOLEAN : clear_video_slot(c, manager_raises)
    \/ \E c \in ClientIds : clear_remote_video_slot(c)

SpecVideoSlots == Init /\ [][NextVideoSlots]_vars

\* C2: slot 0 is reserved for the local video: its participant_id is never the
\* client id of a remote participant.
C2_SlotZeroNeverRemote == video_slots[0].participant_id \notin ClientIds

\* A remote frame arrived while slots 1..3 were all held by other clients.
C2_Witness ==
    /\ last_op = "update_remote_video"
    /\ \A i \in 1..3 : video_slots[i].active /\ video_slots[i].participant_id \in ClientIds
    /\ \A c \in ClientIds : VideoEnabledFor(participant_videos, c)
    /\ video_slots[0].participant_id = "local"

NextVideoRemote ==
    \/ \E c \in ClientIds, e \in {None, "True", "False"} : update_participant_info(c, e)
    \/ \E c \in ClientIds : update_remote_video(c)
    \/ \E c \in ClientIds, manager_raises \in BOOLEAN : clear_video_slot(c, manager_raises)
    \/ \E c \in ClientIds : clear_remote_video_slot(c)

SpecVideoRemote == Init /\ [][NextVideoRemote]_vars

RecordedDisabled(c) == c \in DOMAIN participant_videos /\ participant_videos[c] = "False"

\* C8: update_remote_video(client_id, frame) for a participant whose recorded
\* video_enabled is False leaves every slot's participant_id and active flag
\* unchanged.
C8_DisabledParticipantFrameIgnored ==
    [][ \A c \in ClientIds :
          (RecordedDisabled(c) /\ update_remote_video(c)) => UNCHANGED video_slots
      ]_vars

\* A remote frame arrived when every client was recorded with video off, one of
\* them still holding slot 1 and slot 3 free.
C8_Witness ==
    /\ last_op = "update_remote_video"
    /\ \A c \in ClientIds : RecordedDisabled(c)
    /\ video_slots[1].active
    /\ ~video_slots[3].active

(***************************************************************************)
(* ChatFrame: the history                                                  *)
(***************************************************************************)
NextChatHistory ==
    \/ \E ts \in Timestamps, own \in BOOLEAN : add_message("alice", ts, own, "chat")
    \/ \E ts \in Timestamps : add_system_message(ts)
    \/ \E ts \in Timestamps : add_error_message(ts)
    \/ \E h \in Histories : load_chat_history(h)
    \/ \E confirmed \in BOOLEAN : clear_chat_history(confirmed)
    \/ chat_status_timer

SpecChatHistory == Init /\ [][NextChatHistory]_vars

\* C1: after any sequence of ChatFrame operations (add_message,
\* add_system_message, add_error_message, load_chat_history, confirmed
\* _clear_chat_history) the length of chat_history never exceeds
\* max_history_size.
C1_HistoryNeverExceedsCap == Len(chat_history) <= max_history_size

(***************************************************************************)
(* ChatFrame: sending                                                      *)
(***************************************************************************)
NextChatSend ==
    \/ \E text \in EntryTexts : type_message(text)
    \/ \E registered \in BOOLEAN : set_message_callback(registered)
    \/ \E raises \in BOOLEAN : send_message(raises)
    \/ chat_status_timer

SpecChatSend == Init /\ [][NextChatSend]_vars

\* C10: _send_message invokes message_callback only for a stripped text that is
\* non-empty and at most 1000 characters, and passes it that text; the entry
\* changes only when the callback was invoked and returned without raising; in
\* the empty, over-long, no-callback and raising-callback cases the entry is
\* left unchanged and an error status is shown.
C10_SendMessageContract ==
    [][ (\E raises \in BOOLEAN : send_message(raises)) =>
        LET text   == Strip(message_entry)
            valid  == text # <<>> /\ Len(text) <= MaxMessageLength
            called == last_calls' # <<>>
            raised == called /\ last_calls'[1].raised
        IN  /\ called => /\ valid
                         /\ Len(last_calls') = 1
                         /\ last_calls'[1].cb = "message_callback"
                         /\ last_calls'[1].arg = text
            /\ message_entry' # message_entry => called /\ ~raised
            /\ (called /\ ~raised) => message_entry' = <<>>
            /\ (~valid \/ ~message_callback \/ raised) =>
                   /\ message_entry' = message_entry
                   /\ chat_status'.is_error
      ]_vars

\* A message of exactly 1000 characters after stripping was sent and the entry
\* cleared.
C10_Witness ==
    /\ last_op = "_send_message"
    /\ Len(last_calls) = 1
    /\ ~last_calls[1].raised
    /\ Len(last_calls[1].arg) = MaxMessageLength
    /\ message_entry = <<>>
    /\ ~chat_status.is_error

(***************************************************************************)
(* AudioFrame                                                              *)
(***************************************************************************)
set_audio_callback(registered) ==
    /\ audio_callback' = registered
    /\ last_op' = "set_audio_callback"
    /\ last_calls' = <<>>
    /\ UNCHANGED <<window_alive, file_vars, screen_vars, chat_vars, video_vars, audio_enabled, muted,
                   audio_button_text, mute_button_text, mute_button_state, level_bar,
                   mute_callback, share_vars, conn_vars>>

set_mute_callback(registered) ==
    /\ mute_callback' = registered
    /\ last_op' = "set_mute_callback"
    /\ last_calls' = <<>>
    /\ UNCHANGED <<window_alive, file_vars, screen_vars, chat_vars, video_vars, audio_enabled, muted,
                   audio_button_text, mute_button_text, mute_button_state, level_bar,
                   audio_callback, share_vars, conn_vars>>

\* The argument both handlers give audio_callback: self.enabled and not self.muted
AudibleIgnoringMute(enabled, is_muted) == enabled
Audible(enabled, is_muted) == enabled /\ ~is_muted

\* _toggle_audio (the audio button's command); the callback is its last
\* statement.
toggle_audio(raises) ==
    /\ window_alive
    /\ raises => audio_callback
    /\ audio_enabled' = ~audio_enabled
    /\ audio_button_text' = IF audio_enabled' THEN "Disable Audio" ELSE "Enable Audio"
    /\ mute_button_state' = IF audio_enabled' THEN "normal" ELSE "disabled"
    /\ last_calls' = IF audio_callback
                     THEN <<Call("audio_callback", Audible(audio_enabled', muted), raises)>>
                     ELSE <<>>
    /\ last_op' = "_toggle_audio"
    /\ UNCHANGED <<window_alive, file_vars, screen_vars, chat_vars, video_vars, muted, mute_button_text, level_bar,
                   audio_callback, mute_callback, share_vars, conn_vars>>

\* _toggle_mute (the mute button's command, so the button is enabled): the mute
\* callback is called first; if it raises, the audio callback is not reached.
toggle_mute(mute_raises, audio_raises) ==
    /\ window_alive
    /\ mute_button_state = "normal"
    /\ mute_raises => mute_callback
    /\ audio_raises => (audio_callback /\ ~mute_raises)
    /\ muted' = ~muted
    /\ mute_button_text' = IF muted' THEN "Unmute" ELSE "Mute"
    /\ last_calls' =
          (IF mute_callback THEN <<Call("mute_callback", muted', mute_raises)>> ELSE <<>>)
          \o (IF audio_callback /\ ~mute_raises
              THEN <<Call("audio_callback", Audible(audio_enabled, muted'), audio_raises)>>
              ELSE <<>>)
    /\ last_op' = "_toggle_mute"
    /\ UNCHANGED <<window_alive, file_vars, screen_vars, chat_vars, video_vars, audio_enabled, audio_button_text,
                   mute_button_state, level_bar, audio_callback, mute_callback,
                   share_vars, conn_vars>>

\* update_audio_level(level): level_bar['value'] = level * 100.  Levels are
\* given in tenths.
AudioLevelTenths == {0, 5, 10}
update_audio_level(tenths) ==
    /\ level_bar' = (tenths * 100) \div 10
    /\ last_op' = "update_audio_level"
    /\ last_calls' = <<>>
    /\ UNCHANGED <<window_alive, file_vars, screen_vars, chat_vars, video_vars, audio_enabled, muted,
                   audio_button_text, mute_button_text, mute_button_state,
                   audio_callback, mute_callback, share_vars, conn_vars>>

NextAudio ==
    \/ \E registered \in BOOLEAN : set_audio_callback(registered)
    \/ \E registered \in BOOLEAN : set_mute_callback(registered)
    \/ \E raises \in BOOLEAN : toggle_audio(raises)
    \/ \E mute_raises \in BOOLEAN, audio_raises \in BOOLEAN : toggle_mute(mute_raises, audio_raises)
    \/ \E tenths \in AudioLevelTenths : update_audio_level(tenths)

SpecAudio == Init /\ [][NextAudio]_vars

\* C5: every invocation of the registered audio_callback, by _toggle_audio or
\* by _toggle_mute, passes exactly (enabled AND NOT muted) as the two flags
\* stand after the toggle.
C5_AudioCallbackGetsAudibleState ==
    [][ ((\E raises \in BOOLEAN : toggle_audio(raises))
         \/ (\E mute_raises \in BOOLEAN, audio_raises \in BOOLEAN :
                toggle_mute(mute_raises, audio_raises)))
        => \A k \in 1..Len(last_calls') :
              last_calls'[k].cb = "audio_callback"
              => last_calls'[k].arg = (audio_enabled' /\ ~muted')
      ]_vars

\* _toggle_mute has just muted enabled audio and told both callbacks.
C5_Witness ==
    /\ last_op = "_toggle_mute"
    /\ audio_enabled /\ muted
    /\ Len(last_calls) = 2
    /\ last_calls[2].cb = "audio_callback"
    /\ last_calls[2].arg = FALSE

(***************************************************************************)
(* ScreenShareFrame: the share button, the status label and their timers   *)
(***************************************************************************)
PresenterNames == {"alice", "bob"}
IsSharingText(presenter_name) ==            \* f"{presenter_name} is sharing"
    IF presenter_name = "alice" THEN "alice is sharing" ELSE "bob is sharing"
IsPresenterText(presenter_name) ==          \* f"{presenter_name} is presenter"
    IF presenter_name = "alice" THEN "alice is presenter" ELSE "bob is presenter"
IsThePresenterText(presenter_name) ==       \* f"{presenter_name} is the presenter"
    IF presenter_name = "alice" THEN "alice is the presenter" ELSE "bob is the presenter"

\* button_text.startswith("Start") and button_text.startswith("Stop") over the
\* texts the button can carry.
StartsWithStart(text) == text \in {"Start Screen Share", "Starting..."}
StartsWithStop(text) == text = "Stop Screen Share"

\* _safe_button_update / _safe_label_update: configure the widget if it exists.
SafeButtonUpdate(state, text) ==
    IF WidgetExists
    THEN share_button_state' = state /\ share_button_text' = text
    ELSE UNCHANGED <<share_button_state, share_button_text>>
SafeLabelUpdate(text) ==
    IF WidgetExists THEN sharing_status' = text ELSE UNCHANGED sharing_status

set_screen_share_callback(registered) ==
    /\ screen_share_callback' = registered
    /\ last_op' = "set_screen_share_callback"
    /\ last_calls' = <<>>
    /\ UNCHANGED <<window_alive, file_vars, screen_vars, chat_vars, video_vars, audio_vars, is_sharing, share_enabled,
                   current_presenter_name, share_button_text, share_button_state,
                   sharing_status, request_timers, label_timers, conn_vars>>

\* The callback invocation of _toggle_screen_share: True to request the role or
\* to start sharing, False to stop.
ShareCalls(text, raises) ==
    IF ~screen_share_callback THEN <<>>
    ELSE IF text = "Request Presenter Role" \/ StartsWithStart(text)
    THEN <<Call("screen_share_callback", TRUE, raises)>>
    ELSE IF StartsWithStop(text)
    THEN <<Call("screen_share_callback", FALSE, raises)>>
    ELSE <<>>

\* The 10-second timer _toggle_screen_share schedules: only on the request
\* branch, only with a callback registered, and only after the callback
\* returned.
RequestTimerScheduled(text, raises) ==
    text = "Request Presenter Role" /\ screen_share_callback /\ ~raises

\* The button and label a click leaves when the except handler is left out.
AfterClickWithoutHandler(text, raises) ==
    IF text = "Request Presenter Role"
    THEN [state |-> "disabled", text |-> "Requesting...",
          label |-> "Requesting presenter role..."]
    ELSE IF StartsWithStart(text)
    THEN [state |-> "disabled", text |-> "Starting...", label |-> "Starting screen share..."]
    ELSE [state |-> share_button_state, text |-> text, label |-> sharing_status]

\* The button and label _toggle_screen_share leaves for a click on a button
\* that reads text: the loading state of the branch taken, or, when the
\* callback raised, what the except handler sets.
AfterClick(text, raises) ==
    IF raises
    THEN [state |-> "normal", text |-> "Request Presenter Role", label |-> "Error - try again"]
    ELSE IF text = "Request Presenter Role"
    THEN [state |-> "disabled", text |-> "Requesting...",
          label |-> "Requesting presenter role..."]
    ELSE IF StartsWithStart(text)
    THEN [state |-> "disabled", text |-> "Starting...", label |-> "Starting screen share..."]
    ELSE [state |-> share_button_state, text |-> text, label |-> sharing_status]

\* _toggle_screen_share (the share button's command, so the button is enabled).
\* An exception of the callback is caught: the button goes back to enabled
\* "Request Presenter Role" and the label shows the error.
toggle_screen_share(raises) ==
    /\ window_alive
    /\ share_button_state = "normal"
    /\ raises => ShareCalls(share_button_text, raises) # <<>>
    /\ RequestTimerScheduled(share_button_text, raises) => request_timers < MaxTimers
    /\ SafeButtonUpdate(AfterClick(share_button_text, raises).state,
                        AfterClick(share_button_text, raises).text)
    /\ SafeLabelUpdate(AfterClick(share_button_text, raises).label)
    /\ request_timers' = IF RequestTimerScheduled(share_button_text, raises)
                         THEN request_timers + 1 ELSE request_timers
    /\ last_calls' = ShareCalls(share_button_text, raises)
    /\ last_op' = "_toggle_screen_share"
    /\ UNCHANGED <<window_alive, file_vars, screen_vars, chat_vars, video_vars, audio_vars, is_sharing, share_enabled,
                   current_presenter_name, screen_share_callback, label_timers, conn_vars>>

\* _reset_presenter_request_timeout, run by the 10-second timer.
reset_presenter_request_timeout ==
    /\ window_alive
    /\ request_timers > 0
    /\ share_button_text = "Requesting..." => Len(label_timers) < MaxTimers
    /\ request_timers' = request_timers - 1
    /\ IF share_button_text = "Requesting..."
       THEN /\ SafeButtonUpdate("normal", "Request Presenter Role")
            /\ SafeLabelUpdate("Request timed out - try again")
            /\ label_timers' = Append(label_timers, "Ready to request presenter role")
       ELSE UNCHANGED <<share_button_state, share_button_text, sharing_status, label_timers>>
    /\ last_op' = "_reset_presenter_request_timeout"
    /\ last_calls' = <<>>
    /\ UNCHANGED <<window_alive, file_vars, screen_vars, chat_vars, video_vars, audio_vars, is_sharing, share_enabled,
                   current_presenter_name, screen_share_callback, conn_vars>>

\* The 3-second timers that put a text back on the status label; equal delays
\* fire in the order they were scheduled.
label_timer ==
    /\ label_timers # <<>>
    /\ SafeLabelUpdate(Head(label_timers))
    /\ label_timers' = Tail(label_timers)
    /\ last_op' = "label_timer"
    /\ last_calls' = <<>>
    /\ UNCHANGED <<window_alive, file_vars, screen_vars, chat_vars, video_vars, audio_vars, is_sharing, share_enabled,
                   current_presenter_name, share_button_text, share_button_state,
                   screen_share_callback, request_timers, conn_vars>>

\* update_presenter(presenter_name): who is presenting; None when nobody is.
\* What update_presenter(presenter_name) does to the frame: the presenter's
\* name is stored, and the button and label follow it unless this client is
\* the one sharing.
PresenterUpdate(presenter_name) ==
    /\ current_presenter_name' = presenter_name
    /\ IF presenter_name # None /\ ~is_sharing
       THEN SafeButtonUpdate("disabled", IsSharingText(presenter_name))
            /\ SafeLabelUpdate(IsSharingText(presenter_name))
       ELSE IF presenter_name = None /\ ~is_sharing
       THEN SafeButtonUpdate("normal", "Start Screen Share")
            /\ SafeLabelUpdate("Ready to share")
       ELSE UNCHANGED <<share_button_state, share_button_text, sharing_status>>

update_presenter(presenter_name) ==
    /\ window_alive
    /\ PresenterUpdate(presenter_name)
    /\ last_op' = "update_presenter"
    /\ last_calls' = <<>>
    /\ UNCHANGED <<window_alive, file_vars, screen_vars, chat_vars, video_vars, audio_vars, is_sharing, share_enabled,
                   screen_share_callback, request_timers, label_timers, conn_vars>>

\* set_sharing_status(is_sharing)
\* _reset_screen_cache: the cached canvas size is forgotten and the canvas
\* is emptied.  (The cached scale is a memo of a pure computation keyed by
\* its inputs, so it is not modelled.)
ResetScreenCache ==
    /\ cached_canvas_size' = <<>>
    /\ screen_placement' = <<>>

\* _show_local_sharing_preview empties the canvas and writes its messages.
ShowLocalSharingPreview ==
    /\ screen_placement' = <<>>
    /\ UNCHANGED cached_canvas_size

set_sharing_status(sharing) ==
    /\ window_alive
    /\ is_sharing' = sharing
    /\ share_enabled' = sharing
    /\ IF sharing
       THEN SafeButtonUpdate("normal", "Stop Screen Share") /\ SafeLabelUpdate("You are sharing")
            /\ ShowLocalSharingPreview
       ELSE SafeButtonUpdate("normal", "Start Screen Share") /\ SafeLabelUpdate("Ready to share")
            /\ ResetScreenCache
    /\ last_op' = "set_sharing_status"
    /\ last_calls' = <<>>
    /\ UNCHANGED <<window_alive, file_vars, chat_vars, video_vars, audio_vars, current_presenter_name,
                   screen_share_callback, request_timers, label_timers, conn_vars,
                   screen_canvas, last_canvas_size, current_frame_data, current_presenter>>

\* The button and label set_presenter_status(is_presenter, presenter_name)
\* leaves.
PresenterButton(is_presenter, presenter_name) ==
    IF is_presenter THEN [state |-> "normal", text |-> "Start Screen Share"]
    ELSE IF presenter_name # None
    THEN [state |-> "disabled", text |-> IsPresenterText(presenter_name)]
    ELSE [state |-> "normal", text |-> "Request Presenter Role"]
PresenterLabel(is_presenter, presenter_name) ==
    IF is_presenter THEN "You are the presenter"
    ELSE IF presenter_name # None THEN IsThePresenterText(presenter_name)
    ELSE "Ready to request presenter role"

set_presenter_status(is_presenter, presenter_name) ==
    /\ window_alive
    /\ SafeButtonUpdate(PresenterButton(is_presenter, presenter_name).state,
                        PresenterButton(is_presenter, presenter_name).text)
    /\ SafeLabelUpdate(PresenterLabel(is_presenter, presenter_name))
    /\ last_op' = "set_presenter_status"
    /\ last_calls' = <<>>
    /\ UNCHANGED <<window_alive, file_vars, screen_vars, chat_vars, video_vars, audio_vars, is_sharing, share_enabled,
                   current_presenter_name, screen_share_callback, request_timers,
                   label_timers, conn_vars>>

\* reset_screen_sharing_button
reset_screen_sharing_button ==
    /\ window_alive
    /\ SafeButtonUpdate("normal", "Request Presenter Role")
    /\ SafeLabelUpdate("Ready to request presenter role")
    /\ is_sharing' = FALSE
    /\ last_op' = "reset_screen_sharing_button"
    /\ last_calls' = <<>>
    /\ UNCHANGED <<window_alive, file_vars, screen_vars, chat_vars, video_vars, audio_vars, share_enabled,
                   current_presenter_name, screen_share_callback, request_timers,
                   label_timers, conn_vars>>

\* handle_presenter_granted: set_presenter_status(True), then the label.
handle_presenter_granted ==
    /\ window_alive
    /\ SafeButtonUpdate(PresenterButton(TRUE, None).state, PresenterButton(TRUE, None).text)
    /\ SafeLabelUpdate("You are the presenter - ready to share")
    /\ last_op' = "handle_presenter_granted"
    /\ last_calls' = <<>>
    /\ UNCHANGED <<window_alive, file_vars, screen_vars, chat_vars, video_vars, audio_vars, is_sharing, share_enabled,
                   current_presenter_name, screen_share_callback, request_timers,
                   label_timers, conn_vars>>

\* handle_presenter_denied: only the label changes, and a 3-second timer is
\* scheduled to put "Ready to share" back; the button is left as it is.
handle_presenter_denied ==
    /\ window_alive
    /\ Len(label_timers) < MaxTimers
    /\ SafeLabelUpdate("Presenter request denied")
    /\ label_timers' = Append(label_timers, "Ready to share")
    /\ last_op' = "handle_presenter_denied"
    /\ last_calls' = <<>>
    /\ UNCHANGED <<window_alive, file_vars, screen_vars, chat_vars, video_vars, audio_vars, is_sharing, share_enabled,
                   current_presenter_name, share_button_text, share_button_state,
                   screen_share_callback, request_timers, conn_vars>>

\* handle_screen_share_stopped: the presenter is cleared, then
\* set_sharing_status(False), set_presenter_status(False) and the label.
handle_screen_share_stopped ==
    /\ window_alive
    /\ current_presenter_name' = None
    /\ is_sharing' = FALSE
    /\ share_enabled' = FALSE
    /\ SafeButtonUpdate(PresenterButton(FALSE, None).state, PresenterButton(FALSE, None).text)
    /\ SafeLabelUpdate("Ready to request presenter role")
    /\ ResetScreenCache
    /\ last_op' = "handle_screen_share_stopped"
    /\ last_calls' = <<>>
    /\ UNCHANGED <<window_alive, file_vars, chat_vars, video_vars, audio_vars, screen_share_callback,
                   request_timers, label_timers, conn_vars,
                   screen_canvas, last_canvas_size, current_frame_data, current_presenter>>

NextShare ==
    \/ \E registered \in BOOLEAN : set_screen_share_callback(registered)
    \/ \E raises \in BOOLEAN : toggle_screen_share(raises)
    \/ reset_presenter_request_timeout
    \/ label_timer
    \/ \E presenter_name \in PresenterNames \cup {None} : update_presenter(presenter_name)
    \/ \E sharing \in BOOLEAN : set_sharing_status(sharing)
    \/ \E is_presenter \in BOOLEAN, presenter_name \in PresenterNames \cup {None} :
          set_presenter_status(is_presenter, presenter_name)
    \/ reset_screen_sharing_button
    \/ handle_presenter_granted
    \/ handle_presenter_denied
    \/ handle_screen_share_stopped

\* Tk runs every scheduled timer once its delay has passed.  (Strong fairness,
\* because the bound MaxTimers can disable a timer's step for a while.)
SpecShare ==
    /\ Init /\ [][NextShare]_vars
    /\ SF_vars(reset_presenter_request_timeout)
    /\ SF_vars(label_timer)

\* Once the button reads "Requesting..." with a 10-second timer pending, it does
\* not stay so forever.
RequestingWithTimerEventuallyReset ==
    (share_button_text = "Requesting..." /\ request_timers > 0)
        ~> (share_button_text # "Requesting...")

\* C4: once the share button reads "Requesting..." (after a click on "Request
\* Presenter Role") it does not stay so forever: a response or the 10-second
\* timer eventually changes it.
C4_RequestingEventuallyReset ==
    (share_button_text = "Requesting...") ~> (share_button_text # "Requesting...")

(***************************************************************************)
(* TabbedGUIManager: the connection row                                    *)
(***************************************************************************)
\* str.lower() on the letters that occur in the statuses.
LowerCase == [C |-> "c", O |-> "o", N |-> "n", E |-> "e", T |-> "t", D |-> "d",
              I |-> "i", S |-> "s", G |-> "g", R |-> "r"]
LowerChar(ch) == IF ch \in DOMAIN LowerCase THEN LowerCase[ch] ELSE ch
Lower(text) == [k \in 1..Len(text) |-> LowerChar(text[k])]

\* The statuses update_connection_status is given, as character sequences.
Statuses == {
    <<"c", "o", "n", "n", "e", "c", "t", "e", "d">>,
    <<"C", "o", "n", "n", "e", "c", "t", "e", "d">>,
    <<"C", "O", "N", "N", "E", "C", "T", "E", "D">>,
    <<"c", "o", "n", "n", "e", "c", "t", "e", "d", " ">>,
    <<"D", "i", "s", "c", "o", "n", "n", "e", "c", "t", "e", "d">>,
    <<"d", "i", "s", "c", "o", "n", "n", "e", "c", "t", "e", "d">>,
    <<"C", "o", "n", "n", "e", "c", "t", "i", "n", "g">>,
    <<"E", "r", "r", "o", "r">>,
    <<>> }

\* status.lower() == "connected"
StatusIsConnectedCaseSensitive(status) == status = <<"c", "o", "n", "n", "e", "c", "t", "e", "d">>
StatusIsConnected(status) == Lower(status) = <<"c", "o", "n", "n", "e", "c", "t", "e", "d">>

\* update_connection_status(status): the label shows f"Status: {status}", and
\* the flag and the two buttons follow the comparison.
update_connection_status(status) ==
    /\ window_alive
    /\ conn_status_label' = <<"S", "t", "a", "t", "u", "s", ":", " ">> \o status
    /\ connected' = StatusIsConnected(status)
    /\ connect_button_state' = IF StatusIsConnected(status) THEN "disabled" ELSE "normal"
    /\ disconnect_button_state' = IF StatusIsConnected(status) THEN "normal" ELSE "disabled"
    /\ last_status' = status
    /\ last_op' = "update_connection_status"
    /\ last_calls' = <<>>
    /\ UNCHANGED <<window_alive, file_vars, screen_vars, chat_vars, video_vars, audio_vars, share_vars,
                   connect_callback, disconnect_callback>>

set_connection_callbacks(connect_registered, disconnect_registered) ==
    /\ connect_callback' = connect_registered
    /\ disconnect_callback' = disconnect_registered
    /\ last_op' = "set_connection_callbacks"
    /\ last_calls' = <<>>
    /\ UNCHANGED <<window_alive, file_vars, screen_vars, chat_vars, video_vars, audio_vars, share_vars, connected,
                   connect_button_state, disconnect_button_state, conn_status_label,
                   last_status>>

\* _connect_clicked (the Connect button's command, so the button is enabled):
\* with a server and a username entered, the callback gets the username.
connect_clicked(fields_filled, raises) ==
    /\ window_alive
    /\ connect_button_state = "normal"
    /\ raises => (fields_filled /\ connect_callback)
    /\ last_calls' = IF fields_filled /\ connect_callback
                     THEN <<Call("connect_callback", "User", raises)>> ELSE <<>>
    /\ last_op' = "_connect_clicked"
    /\ UNCHANGED <<window_alive, file_vars, screen_vars, chat_vars, video_vars, audio_vars, share_vars, conn_vars>>

\* _disconnect_clicked (the Disconnect button's command).
disconnect_clicked(raises) ==
    /\ window_alive
    /\ disconnect_button_state = "normal"
    /\ raises => disconnect_callback
    /\ last_calls' = IF disconnect_callback
                     THEN <<Call("disconnect_callback", None, raises)>> ELSE <<>>
    /\ last_op' = "_disconnect_clicked"
    /\ UNCHANGED <<window_alive, file_vars, screen_vars, chat_vars, video_vars, audio_vars, share_vars, conn_vars>>

NextConn ==
    \/ \E status \in Statuses : update_connection_status(status)
    \/ \E connect_registered \in BOOLEAN, disconnect_registered \in BOOLEAN :
          set_connection_callbacks(connect_registered, disconnect_registered)
    \/ \E fields_filled \in BOOLEAN, raises \in BOOLEAN : connect_clicked(fields_filled, raises)
    \/ \E raises \in BOOLEAN : disconnect_clicked(raises)

SpecConn == Init /\ [][NextConn]_vars

EqualIgnoringCase(a, b) ==
    Len(a) = Len(b) /\ \A k \in 1..Len(a) : LowerChar(a[k]) = LowerChar(b[k])

\* C9: while the window exists, exactly one of the Connect and Disconnect
\* buttons is enabled; Disconnect is enabled and Connect disabled iff connected
\* is True; and connected is True iff the last status given to
\* update_connection_status equals "connected" ignoring case (initially
\* disconnected).
C9_ButtonsFollowConnectionStatus ==
    /\ (connect_button_state = "normal") # (disconnect_button_state = "normal")
    /\ connected <=> (disconnect_button_state = "normal" /\ connect_button_state = "disabled")
    /\ connected <=> EqualIgnoringCase(last_status, <<"c", "o", "n", "n", "e", "c", "t", "e", "d">>)

\* "CONNECTED" has just been given: connected, Disconnect enabled.
C9_Witness ==
    /\ last_op = "update_connection_status"
    /\ last_status = <<"C", "O", "N", "N", "E", "C", "T", "E", "D">>
    /\ connected
    /\ disconnect_button_state = "normal"

(***************************************************************************)
(* FileTransferFrame: the shared-file list and the download handler        *)
(***************************************************************************)
FileIds == {"f1", "f2", "f3"}
BytesPerKB == 1024
BytesPerMB == 1024 * 1024
LargeFileMB == 10                     \* "Warn for files larger than 10MB"
FileSizes == {512, LargeFileMB * BytesPerMB, LargeFileMB * BytesPerMB + 1}

\* f"{x:.1f}": x = num / den in tenths, rounded to nearest.
Tenths(num, den) == (2 * 10 * num + den) \div (2 * den)

\* The size text of a listbox row: [value, unit], value in tenths for KB and MB.
SizeStr(filesize) ==
    IF filesize < BytesPerKB THEN [value |-> filesize, unit |-> "B"]
    ELSE IF filesize < BytesPerMB
    THEN [value |-> Tenths(filesize, BytesPerKB), unit |-> "KB"]
    ELSE [value |-> Tenths(filesize, BytesPerMB), unit |-> "MB"]

\* display_text = f"{filename} ({size_str}) - {uploader}"
DisplayText(item) ==
    [filename |-> item.filename, size_str |-> SizeStr(item.filesize), uploader |-> item.uploader]

\* self.shared_files[file_id] = {...}: an existing key keeps its position in
\* the dict, a new key goes to the end.
PositionOf(files, file_id) == { k \in 1..Len(files) : files[k].file_id = file_id }
SharedFilesWith(files, file_id, filename, filesize, uploader) ==
    LET item == [file_id |-> file_id, filename |-> filename, filesize |-> filesize,
                 uploader |-> uploader]
    IN  IF PositionOf(files, file_id) = {} THEN Append(files, item)
        ELSE [k \in 1..Len(files) |-> IF files[k].file_id = file_id THEN item ELSE files[k]]

\* _update_file_list: the listbox is emptied (which drops the selection) and
\* gets one row per dict entry, in dict order.
FileListRows(files) == [k \in 1..Len(files) |-> DisplayText(files[k])]

add_shared_file(file_id, filename, filesize, uploader) ==
    /\ window_alive
    /\ shared_files' = SharedFilesWith(shared_files, file_id, filename, filesize, uploader)
    /\ file_listbox' = FileListRows(shared_files')
    /\ file_selection' = <<>>
    /\ last_op' = "add_shared_file"
    /\ last_calls' = <<>>
    /\ UNCHANGED <<window_alive, screen_vars, chat_vars, video_vars, audio_vars, share_vars, conn_vars,
                   file_download_callback>>

\* set_file_callbacks (the download callback of it).
set_file_callbacks(download_registered) ==
    /\ file_download_callback' = download_registered
    /\ last_op' = "set_file_callbacks"
    /\ last_calls' = <<>>
    /\ UNCHANGED <<window_alive, screen_vars, chat_vars, video_vars, audio_vars, share_vars, conn_vars,
                   shared_files, file_listbox, file_selection>>

\* The user selects a row of the listbox, or none is selected.
select_file_row(selection) ==
    /\ window_alive
    /\ selection # <<>> => selection[1] \in 0..(Len(file_listbox) - 1)
    /\ file_selection' = selection
    /\ last_op' = "select_file_row"
    /\ last_calls' = <<>>
    /\ UNCHANGED <<window_alive, screen_vars, chat_vars, video_vars, audio_vars, share_vars, conn_vars,
                   shared_files, file_listbox, file_download_callback>>

\* size_mb = filesize / (1024 * 1024); size_mb > 10
NeedsConfirmation(filesize) == filesize > LargeFileMB * BytesPerMB

\* The callback invocation of _download_file: none without a selection, without
\* a callback, for a row beyond the dict, or when the user declines the
\* confirmation of a large file; otherwise the file_id of the selected entry.
DownloadCallsFirstEntry(files, selection, registered, confirms, raises) ==
    IF selection = <<>> \/ ~registered \/ selection[1] >= Len(files) THEN <<>>
    ELSE IF NeedsConfirmation(files[selection[1] + 1].filesize) /\ ~confirms THEN <<>>
    ELSE <<Call("file_download_callback", files[1].file_id, raises)>>
DownloadCalls(files, selection, registered, confirms, raises) ==
    IF selection = <<>> \/ ~registered \/ selection[1] >= Len(files) THEN <<>>
    ELSE IF NeedsConfirmation(files[selection[1] + 1].filesize) /\ ~confirms THEN <<>>
    ELSE <<Call("file_download_callback", files[selection[1] + 1].file_id, raises)>>

\* _download_file (the Download button's command and the double click); an
\* exception of the callback is caught and shown in a dialog.
download_file(confirms, raises) ==
    /\ window_alive
    /\ raises => DownloadCalls(shared_files, file_selection, file_download_callback,
                               confirms, FALSE) # <<>>
    /\ last_calls' = DownloadCalls(shared_files, file_selection, file_download_callback,
                                   confirms, raises)
    /\ last_op' = "_download_file"
    /\ UNCHANGED <<window_alive, screen_vars, chat_vars, video_vars, audio_vars, share_vars, conn_vars,
                   file_vars>>

NextFiles ==
    \/ \E file_id \in FileIds, filesize \in FileSizes :
          add_shared_file(file_id, "notes.txt", filesize, "alice")
    \/ \E download_registered \in BOOLEAN : set_file_callbacks(download_registered)
    \/ \E selection \in {<<>>} \cup { <<row>> : row \in 0..(Cardinality(FileIds) - 1) } :
          select_file_row(selection)
    \/ \E confirms \in BOOLEAN, raises \in BOOLEAN : download_file(confirms, raises)

SpecFiles == Init /\ [][NextFiles]_vars

\* C11: listbox row i shows the i-th entry of shared_files (after any
\* add_shared_file calls, re-adds included), and _download_file with row i
\* selected passes exactly that entry's file_id to file_download_callback, once;
\* it makes no call when nothing is selected, when no callback is registered, or
\* when the user declines the confirmation for a file larger than 10 MB.
C11_ListMatchesFilesAndDownloadPicksRow ==
    /\ [](/\ Len(file_listbox) = Len(shared_files)
          /\ \A k \in 1..Len(shared_files) :
                /\ file_listbox[k].filename = shared_files[k].filename
                /\ file_listbox[k].uploader = shared_files[k].uploader
                /\ file_listbox[k].size_str = SizeStr(shared_files[k].filesize)
          /\ \A k, m \in 1..Len(shared_files) :
                shared_files[k].file_id = shared_files[m].file_id => k = m)
    /\ [][ \A confirms \in BOOLEAN, raises \in BOOLEAN :
             download_file(confirms, raises) =>
               IF \/ file_selection = <<>>
                  \/ ~file_download_callback
                  \/ (shared_files[file_selection[1] + 1].filesize > 10 * 1024 * 1024
                      /\ ~confirms)
               THEN last_calls' = <<>>
               ELSE /\ Len(last_calls') = 1
                    /\ last_calls'[1].cb = "file_download_callback"
                    /\ last_calls'[1].arg = shared_files[file_selection[1] + 1].file_id
         ]_vars

\* The second row of three was selected, a file larger than 10 MB after a
\* re-add, and the download (confirmed) went to the callback with its file_id.
C11_Witness ==
    /\ last_op = "_download_file"
    /\ Len(shared_files) = 3
    /\ file_selection = <<1>>
    /\ shared_files[2].filesize > 10 * 1024 * 1024
    /\ shared_files[1].file_id = "f3"
    /\ Len(last_calls) = 1
    /\ last_calls[1].arg = shared_files[2].file_id

(***************************************************************************)
(* VideoFrame: the slot dict                                               *)
(***************************************************************************)
\* C12: a VideoFrame always has exactly four video slots, with keys 0, 1, 2
\* and 3: update_video_feeds, update_remote_video, clear_video_slot,
\* clear_remote_video_slot and _toggle_video add or remove none.
C12_AlwaysFourSlots ==
    /\ DOMAIN video_slots = {0, 1, 2, 3}
    /\ Cardinality(DOMAIN video_slots) = 4

\* clear_remote_video_slot has just emptied slot 1 while slots 2 and 3 are
\* still held.
C12_Witness ==
    /\ last_op = "clear_remote_video_slot"
    /\ video_slots[1] = BlankSlot
    /\ video_slots[2].active
    /\ video_slots[3].active

(***************************************************************************)
(* TabbedGUIManager: closing the window                                    *)
(***************************************************************************)
\* What _on_closing does, in order (recorded in last_calls): the disconnect
\* callback when connected and registered, then root.quit() and
\* root.destroy(); an exception of the callback skips to the except branch,
\* which calls root.destroy().
ClosingStepsNoFallback(is_connected, registered, raises) ==
    IF is_connected /\ registered
    THEN IF raises
         THEN <<Call("disconnect_callback", None, TRUE)>>
         ELSE <<Call("disconnect_callback", None, FALSE), Call("root.quit", None, FALSE),
                Call("root.destroy", None, FALSE)>>
    ELSE <<Call("root.quit", None, FALSE), Call("root.destroy", None, FALSE)>>
ClosingSteps(is_connected, registered, raises) ==
    IF is_connected /\ registered
    THEN IF raises
         THEN <<Call("disconnect_callback", None, TRUE), Call("root.destroy", None, FALSE)>>
         ELSE <<Call("disconnect_callback", None, FALSE), Call("root.quit", None, FALSE),
                Call("root.destroy", None, FALSE)>>
    ELSE <<Call("root.quit", None, FALSE), Call("root.destroy", None, FALSE)>>

Destroys(steps) == \E k \in 1..Len(steps) : steps[k].cb = "root.destroy"

\* _on_closing (the WM_DELETE_WINDOW handler).
on_closing(raises) ==
    /\ window_alive
    /\ raises => (connected /\ disconnect_callback)
    /\ last_calls' = ClosingSteps(connected, disconnect_callback, raises)
    /\ window_alive' = ~Destroys(last_calls')
    /\ last_op' = "_on_closing"
    /\ UNCHANGED <<chat_vars, video_vars, audio_vars, share_vars, conn_vars, file_vars,
                   screen_vars>>

\* The connection row until the window is closed; a destroyed window runs no
\* handler.
NextClosing ==
    \/ NextConn
    \/ \E raises \in BOOLEAN : on_closing(raises)

SpecClosing == Init /\ [][NextClosing]_vars

\* C13: _on_closing invokes the disconnect callback iff connected is True and a
\* callback is registered (once), invokes it before the window is destroyed,
\* and destroys the window even when the callback raises.
C13_ClosingDisconnectsThenDestroys ==
    [][ (\E raises \in BOOLEAN : on_closing(raises)) =>
        LET called == { k \in 1..Len(last_calls') : last_calls'[k].cb = "disconnect_callback" }
            destroyed == { k \in 1..Len(last_calls') : last_calls'[k].cb = "root.destroy" }
        IN  /\ (called # {}) <=> (connected /\ disconnect_callback)
            /\ Cardinality(called) <= 1
            /\ destroyed # {}
            /\ \A k \in called, d \in destroyed : k < d
            /\ ~window_alive'
      ]_vars

\* The window was closed while connected, the disconnect callback raised, and
\* the window is gone.
C13_Witness ==
    /\ last_op = "_on_closing"
    /\ connected
    /\ Len(last_calls) = 2
    /\ last_calls[1].cb = "disconnect_callback" /\ last_calls[1].raised
    /\ ~window_alive

(***************************************************************************)
(* VideoFrame: which slot a remote frame goes to                           *)
(***************************************************************************)
\* Remote frames of four clients, two of which have their video switched on and
\* off, and clients leaving.
NextVideoOrder ==
    \/ \E c \in {ClientOrder[1], ClientOrder[4]}, e \in {"True", "False"} :
          update_participant_info(c, e)
    \/ \E c \in ClientIds : update_remote_video(c)
    \/ \E c \in ClientIds : clear_video_slot(c, FALSE)

SpecVideoOrder == Init /\ [][NextVideoOrder]_vars

\* "free meaning not active or participant_id None"
SlotIsFree(slots, i) == ~slots[i].active \/ slots[i].participant_id = None
FirstFreeInOrder132(slots) ==
    IF SlotIsFree(slots, 1) THEN 1
    ELSE IF SlotIsFree(slots, 3) THEN 3
    ELSE IF SlotIsFree(slots, 2) THEN 2
    ELSE NoSlot

\* C14, as stated: update_remote_video for a remote client that is in no slot
\* assigns it the first free slot in the order 1, 3, 2, and a client that
\* already occupies a slot keeps that same slot.
C14_AsStated ==
    [][ \A c \in ClientIds : update_remote_video(c) =>
          /\ (SlotsOf(video_slots, c) = {} /\ FirstFreeInOrder132(video_slots) # NoSlot)
             => /\ SlotsOf(video_slots', c) = {FirstFreeInOrder132(video_slots)}
                /\ video_slots'[FirstFreeInOrder132(video_slots)].active
          /\ SlotsOf(video_slots, c) # {}
             => SlotsOf(video_slots', c) = SlotsOf(video_slots, c)
      ]_vars

\* C14, amended: update_remote_video for a remote client that is in no slot and
\* is not recorded with video_enabled False assigns it the first free slot in
\* the order 1, 3, 2 (and only that slot changes); a client that already
\* occupies a slot keeps that same slot.
C14_FreeSlotOrderForEnabledClients ==
    [][ \A c \in ClientIds : update_remote_video(c) =>
          /\ (/\ SlotsOf(video_slots, c) = {}
              /\ FirstFreeInOrder132(video_slots) # NoSlot
              /\ ~RecordedDisabled(c))
             => /\ SlotsOf(video_slots', c) = {FirstFreeInOrder132(video_slots)}
                /\ video_slots'[FirstFreeInOrder132(video_slots)].active
                /\ \A i \in DOMAIN video_slots :
                      i # FirstFreeInOrder132(video_slots) => video_slots'[i] = video_slots[i]
          /\ SlotsOf(video_slots, c) # {}
             => SlotsOf(video_slots', c) = SlotsOf(video_slots, c)
      ]_vars

\* Remote frames have filled slots 1 and 3 and left slot 2 free, no client
\* recorded with video off.
C14_Witness ==
    /\ last_op = "update_remote_video"
    /\ video_slots[1].active /\ video_slots[3].active /\ ~video_slots[2].active
    /\ video_slots[1].participant_id = "c4"
    /\ video_slots[3].participant_id = "c1"
    /\ \A c \in ClientIds : ~RecordedDisabled(c)
    /\ "c4" \in DOMAIN participant_videos /\ participant_videos["c4"] = "True"

\* C15: when slots 1, 2 and 3 are all active and held by three other clients,
\* update_remote_video for a fourth remote client assigns no slot and leaves
\* the participant_id and active flag of all four slots unchanged.
C15_FourthClientGetsNoSlot ==
    [][ \A c \in ClientIds :
          (/\ update_remote_video(c)
           /\ \A i \in 1..3 : /\ video_slots[i].active
                              /\ video_slots[i].participant_id \in ClientIds \ {c})
          => /\ SlotsOf(video_slots', c) = {}
             /\ \A i \in 0..3 :
                   /\ video_slots'[i].participant_id = video_slots[i].participant_id
                   /\ video_slots'[i].active = video_slots[i].active
      ]_vars

\* Slots 1, 3 and 2 are held by the first three clients, in the order their
\* frames came; the fourth, with video on, holds none after a remote frame.
C15_Witness ==
    /\ last_op = "update_remote_video"
    /\ video_slots[1] = [participant_id |-> "c1", active |-> TRUE]
    /\ video_slots[3] = [participant_id |-> "c2", active |-> TRUE]
    /\ video_slots[2] = [participant_id |-> "c3", active |-> TRUE]
    /\ video_slots[0] = [participant_id |-> "local", active |-> FALSE]
    /\ "c4" \in DOMAIN participant_videos /\ participant_videos["c4"] = "True"

(***************************************************************************)
(* VideoFrame: clients leaving, also after the window was closed           *)
(***************************************************************************)
NextVideoClosing ==
    \/ \E c \in ClientIds : update_remote_video(c)
    \/ \E c \in ClientIds, manager_raises \in BOOLEAN : clear_video_slot(c, manager_raises)
    \/ \E raises \in BOOLEAN : on_closing(raises)

SpecVideoClosing == Init /\ [][NextVideoClosing]_vars

\* C16: after clear_video_slot(client_id) returns, that client occupies no
\* video slot and the slot it held is inactive with participant_id None (slot 0:
\* 'local'), also when an external stability manager raises or the slot's frame
\* widget no longer exists.
C16_ClearedClientHoldsNoSlot ==
    [][ \A c \in ClientIds, manager_raises \in BOOLEAN :
          clear_video_slot(c, manager_raises) =>
            /\ SlotsOf(video_slots', c) = {}
            /\ \A i \in SlotsOf(video_slots, c) :
                  /\ ~video_slots'[i].active
                  /\ video_slots'[i].participant_id = IF i = 0 THEN "local" ELSE None
      ]_vars

(***************************************************************************)
(* ScreenShareFrame: which request a timeout resets                        *)
(***************************************************************************)
\* C17: a presenter-request timeout resets only the request that scheduled it.
\* The 10-second timers fire in the order they were scheduled, and the request
\* the button shows is the latest one; so when a timeout resets a button that
\* reads "Requesting..." (and shows "Request timed out"), no timer of an earlier
\* request is pending: the one that fired is the only one.
C17_TimeoutResetsOnlyItsOwnRequest ==
    [][ (/\ reset_presenter_request_timeout
         /\ share_button_text = "Requesting..."
         /\ share_button_text' = "Request Presenter Role")
        => request_timers = 1
      ]_vars

(***************************************************************************)
(* ScreenShareFrame: the button while someone else presents                *)
(***************************************************************************)
\* C18: whenever someone else is sharing (current_presenter_name is set and
\* is_sharing is False) the local share button is disabled.
C18_ButtonDisabledWhileOtherPresents ==
    (current_presenter_name # None /\ ~is_sharing) => share_button_state = "disabled"


(***************************************************************************)
(* ScreenShareFrame: the screen display                                    *)
(*                                                                         *)
(* A frame is modelled by whether its bytes decode to an image and by the  *)
(* image's size.  What the canvas shows is modelled by the placement of    *)
(* the image item: the sizes the placement was computed from, the size the *)
(* image was resized to and the position it was drawn at.  Which of the    *)
(* canvas and the placeholder label is packed is not modelled.             *)
(*                                                                         *)
(* The scale is a float in the code.  Here it is an exact fraction; on the *)
(* sizes explored below both give the same integers.                       *)
(***************************************************************************)
CanvasSizes == {<<1, 1>>, <<150, 100>>, <<800, 600>>, <<1000, 650>>}
ImageSizes  == {<<1920, 1080>>, <<4000, 3000>>, <<1000, 100>>, <<640, 480>>}

FrameOf(decodable, size) == [decodable |-> decodable, width |-> size[1], height |-> size[2]]
Frames == {FrameOf(TRUE, size) : size \in ImageSizes} \cup {FrameOf(FALSE, <<1, 1>>)}

MaxOf(a, b) == IF a >= b THEN a ELSE b      \* max(a, b)
AbsOf(n) == IF n < 0 THEN 0 - n ELSE n      \* abs(n)

UnmappedCanvas == 10        \* a canvas this small has not been laid out yet
FallbackWidth == 1000
FallbackHeight == 650
FillPercent == 99           \* scale = min(scale_w, scale_h) * 0.99
MinScaleTenths == 3         \* scale = max(scale, 0.3)
MinVisibleWidth == 200
MinVisibleHeight == 150
ResizeThreshold == 5        \* smaller canvas changes are ignored

\* The canvas size a call measures when none is cached.
MeasuredCanvasSize(canvas) ==
    IF canvas[1] <= UnmappedCanvas \/ canvas[2] <= UnmappedCanvas
    THEN <<MaxOf(canvas[1], FallbackWidth), MaxOf(canvas[2], FallbackHeight)>>
    ELSE canvas

\* canvas_width, canvas_height of a call made while the canvas has size canvas.
CanvasSizeUsed(canvas) ==
    IF cached_canvas_size = <<>> THEN MeasuredCanvasSize(canvas) ELSE cached_canvas_size

\* scale as the fraction num/den: min(canvas_width / img_width,
\* canvas_height / img_height) * 0.99, but at least 0.3.
Scale(canvas_width, canvas_height, img_width, img_height) ==
    LET fit == IF canvas_width * img_height <= canvas_height * img_width
               THEN [num |-> canvas_width * FillPercent, den |-> img_width * 100]
               ELSE [num |-> canvas_height * FillPercent, den |-> img_height * 100]
    IN  IF 10 * fit.num >= MinScaleTenths * fit.den
        THEN fit
        ELSE [num |-> MinScaleTenths, den |-> 10]

\* <<new_width, new_height>>: int(img * scale), but at least 200 x 150.
ScaledDimensions(canvas_width, canvas_height, img_width, img_height) ==
    LET scale == Scale(canvas_width, canvas_height, img_width, img_height)
    IN  <<MaxOf((img_width * scale.num) \div scale.den, MinVisibleWidth),
          MaxOf((img_height * scale.num) \div scale.den, MinVisibleHeight)>>

\* x = max(0, (canvas_width - new_width) // 2), and the same for y.
CentredOffset(canvas_extent, new_extent) == MaxOf(0, (canvas_extent - new_extent) \div 2)

\* The image item a call draws for frame on a canvas taken to be canvas_size.
Placement(canvas_size, frame) ==
    LET new_size == ScaledDimensions(canvas_size[1], canvas_size[2], frame.width, frame.height)
    IN  [canvas_width  |-> canvas_size[1],
         canvas_height |-> canvas_size[2],
         img_width     |-> frame.width,
         img_height    |-> frame.height,
         new_width     |-> new_size[1],
         new_height    |-> new_size[2],
         x             |-> CentredOffset(canvas_size[1], new_size[1]),
         y             |-> CentredOffset(canvas_size[2], new_size[2])]

\* What display_screen_frame(frame_data, presenter_name) does while the canvas
\* has size canvas.  frame_data is <<>> for None.  A frame that does not decode
\* raises in Image.open, after the frame was stored and the presenter updated.
DisplayScreenFrame(frame_data, presenter_name, canvas) ==
    IF frame_data = <<>>
    THEN \* _show_black_screen
         /\ screen_placement' = <<>>
         /\ current_presenter_name' = None
         /\ UNCHANGED <<cached_canvas_size, current_frame_data, current_presenter,
                        share_button_state, share_button_text, sharing_status>>
    ELSE /\ current_frame_data' = frame_data
         /\ current_presenter' = presenter_name
         /\ IF current_presenter_name # presenter_name
            THEN PresenterUpdate(presenter_name)
            ELSE UNCHANGED <<current_presenter_name, share_button_state, share_button_text,
                             sharing_status>>
         /\ IF frame_data[1].decodable
            THEN /\ cached_canvas_size' = CanvasSizeUsed(canvas)
                 /\ screen_placement' = <<Placement(CanvasSizeUsed(canvas), frame_data[1])>>
            ELSE /\ cached_canvas_size' = <<>>
                 /\ UNCHANGED screen_placement

display_screen_frame(frame_data, presenter_name) ==
    /\ window_alive
    /\ DisplayScreenFrame(frame_data, presenter_name, screen_canvas)
    /\ last_op' = "display_screen_frame"
    /\ last_calls' = <<>>
    /\ UNCHANGED <<window_alive, file_vars, chat_vars, video_vars, audio_vars, conn_vars,
                   is_sharing, share_enabled, screen_share_callback, request_timers,
                   label_timers, screen_canvas, last_canvas_size>>

\* Tk resizes the canvas and delivers <Configure> to _on_canvas_resize: a
\* change of more than 5 pixels is recorded and the stored frame is displayed
\* again.
on_canvas_resize(new_size) ==
    /\ window_alive
    /\ screen_canvas' = new_size
    /\ IF \/ AbsOf(new_size[1] - last_canvas_size[1]) > ResizeThreshold
          \/ AbsOf(new_size[2] - last_canvas_size[2]) > ResizeThreshold
       THEN /\ last_canvas_size' = new_size
            /\ IF current_frame_data # <<>> /\ current_presenter # None
               THEN DisplayScreenFrame(current_frame_data, current_presenter, new_size)
               ELSE UNCHANGED <<cached_canvas_size, current_frame_data, current_presenter,
                                screen_placement, current_presenter_name,
                                share_button_state, share_button_text, sharing_status>>
       ELSE UNCHANGED <<last_canvas_size, cached_canvas_size, current_frame_data,
                        current_presenter, screen_placement, current_presenter_name,
                        share_button_state, share_button_text, sharing_status>>
    /\ last_op' = "_on_canvas_resize"
    /\ last_calls' = <<>>
    /\ UNCHANGED <<window_alive, file_vars, chat_vars, video_vars, audio_vars, conn_vars,
                   is_sharing, share_enabled, screen_share_callback, request_timers,
                   label_timers>>

NextScreen ==
    \/ \E frame \in Frames, presenter_name \in PresenterNames :
          display_screen_frame(<<frame>>, presenter_name)
    \/ \E presenter_name \in PresenterNames : display_screen_frame(<<>>, presenter_name)
    \/ \E new_size \in CanvasSizes : on_canvas_resize(new_size)
    \/ \E sharing \in BOOLEAN : set_sharing_status(sharing)

SpecScreen == Init /\ [][NextScreen]_vars

\* C19: every image display_screen_frame draws fits within the canvas size it
\* computed with (new_width <= canvas_width, new_height <= canvas_height),
\* keeps the image's aspect ratio up to the rounding of int(), and is drawn
\* centred at a non-negative offset without being cropped.
C19_DrawnImageFitsCanvas ==
    screen_placement # <<>> =>
        LET p == screen_placement[1]
        IN  /\ p.new_width <= p.canvas_width
            /\ p.new_height <= p.canvas_height
            /\ AbsOf(p.new_width * p.img_height - p.new_height * p.img_width)
                   < MaxOf(p.img_width, p.img_height)
            /\ p.x >= 0 /\ p.y >= 0
            /\ p.x + p.new_width <= p.canvas_width
            /\ p.y + p.new_height <= p.canvas_height


\* C20: a click whose screen_share_callback raised leaves the share button
\* enabled with the text "Request Presenter Role" and the status label at
\* "Error - try again"; it never leaves the button disabled at "Requesting..."
\* or "Starting...".
C20_FailedClickResetsButton ==
    (last_op = "_toggle_screen_share" /\ last_calls # <<>> /\ last_calls[1].raised) =>
        /\ share_button_state = "normal"
        /\ share_button_text = "Request Presenter Role"
        /\ sharing_status = "Error - try again"

\* A request or start click (the callback was called with True) that raised.
C20_Witness ==
    /\ last_op = "_toggle_screen_share"
    /\ last_calls # <<>>
    /\ last_calls[1].raised
    /\ last_calls[1].arg = TRUE
    /\ share_button_state = "normal"
    /\ share_button_text = "Request Presenter Role"

====
